---- MODULE Spec2Model ----
(***************************************************************************)
(* A model of the three scripts of the repository:                         *)
(*   scripts/generate_coverage_badge.py  (generate_badge)                  *)
(*   verification/verify_event_list.py   (run)                             *)
(*   verification/verify_event_form.py   (run)                             *)
(*                                                                         *)
(* generate_badge computes with Python floats, which are IEEE-754 binary64 *)
(* numbers.  TLC's integers are 32 bits wide, so a binary64 significand    *)
(* (53 bits) is kept as a sequence of 15-bit limbs, least significant      *)
(* first, and float(), *, >= and the ".1f" format are computed exactly as  *)
(* the interpreter computes them (round to nearest, ties to even).         *)
(***************************************************************************)
EXTENDS Integers, Sequences, FiniteSets, TLC

(***************************************************************************)
(* Bounds of the model.                                                    *)
(***************************************************************************)
\* line-rate attributes "n / 10^k" are drawn for n in 0..MaxNum
MaxNum == 100
\* ... and k in 0..MaxScale fractional digits
MaxScale == 2
\* the script is run this many times in succession on the same paths
MaxRuns == 2

(***************************************************************************)
(* Natural numbers of any size: limbs in base 2^15, least significant      *)
(* first, no zero limb at the top; <<>> is 0.                              *)
(***************************************************************************)
LimbBits == 15
LimbBase == 2 ^ LimbBits

RECURSIVE Norm(_)
Norm(a) == IF Len(a) = 0 THEN <<>>
           ELSE IF a[Len(a)] # 0 THEN a ELSE Norm(SubSeq(a, 1, Len(a) - 1))

Limb(a, i) == IF i >= 1 /\ i <= Len(a) THEN a[i] ELSE 0

RECURSIVE SmallBitLen(_)
SmallBitLen(n) == IF n = 0 THEN 0 ELSE 1 + SmallBitLen(n \div 2)

BitLen(a) == IF Len(a) = 0 THEN 0
             ELSE LimbBits * (Len(a) - 1) + SmallBitLen(a[Len(a)])

RECURSIVE BFromInt(_)
BFromInt(n) == IF n = 0 THEN <<>> ELSE <<n % LimbBase>> \o BFromInt(n \div LimbBase)

RECURSIVE BToInt(_)
BToInt(a) == IF Len(a) = 0 THEN 0 ELSE a[1] + LimbBase * BToInt(Tail(a))

RECURSIVE MulAddFrom(_, _, _, _)
MulAddFrom(a, c, i, carry) ==
    IF i > Len(a) THEN BFromInt(carry)
    ELSE LET s == a[i] * c + carry
         IN  <<s % LimbBase>> \o MulAddFrom(a, c, i + 1, s \div LimbBase)

\* a * c + k, for c and k below 2^15
BMulAdd(a, c, k) == Norm(MulAddFrom(a, c, 1, k))

RECURSIVE DivSmallFrom(_, _, _, _)
DivSmallFrom(a, c, i, rem) ==
    IF i = 0 THEN <<<<>>, rem>>
    ELSE LET cur  == rem * LimbBase + a[i]
             rest == DivSmallFrom(a, c, i - 1, cur % c)
         IN  <<Append(rest[1], cur \div c), rest[2]>>

\* <<a div c, a mod c>>, for c below 2^15
BDivSmall(a, c) == LET r == DivSmallFrom(a, c, Len(a), 0) IN <<Norm(r[1]), r[2]>>

\* a * 2^n
BShl(a, n) ==
    LET d  == n \div LimbBits
        t  == n % LimbBits
        lo == 2 ^ (LimbBits - t)
    IN  Norm([j \in 1..(Len(a) + d + 1) |->
                (Limb(a, j - d) % lo) * (2 ^ t) + (Limb(a, j - d - 1) \div lo)])

\* a div 2^n
BShr(a, n) ==
    LET d == n \div LimbBits
        t == n % LimbBits
    IN  IF d >= Len(a) THEN <<>>
        ELSE Norm([j \in 1..(Len(a) - d) |->
                (Limb(a, j + d) \div (2 ^ t))
                  + (Limb(a, j + d + 1) % (2 ^ t)) * (2 ^ (LimbBits - t))])

\* bit i of a, bit 0 the least significant
TestBit(a, i) == (Limb(a, (i \div LimbBits) + 1) \div (2 ^ (i % LimbBits))) % 2

\* the n low bits of a are all zero
LowZero(a, n) ==
    /\ \A j \in 1..Len(a) : j <= n \div LimbBits => a[j] = 0
    /\ Limb(a, (n \div LimbBits) + 1) % (2 ^ (n % LimbBits)) = 0

RECURSIVE CmpFrom(_, _, _)
CmpFrom(a, b, i) ==
    IF i = 0 THEN 0
    ELSE IF a[i] > b[i] THEN 1
    ELSE IF a[i] < b[i] THEN -1
    ELSE CmpFrom(a, b, i - 1)

\* -1, 0 or 1 as a is below, equal to or above b
BCmp(a, b) == IF Len(a) > Len(b) THEN 1
              ELSE IF Len(a) < Len(b) THEN -1
              ELSE CmpFrom(a, b, Len(a))

\* the sign of a * 2^e - c, for a natural c below 2^30
CmpScaled(a, e, c) ==
    IF e >= 0 THEN BCmp(BShl(a, e), BFromInt(c))
    ELSE BCmp(a, BShl(BFromInt(c), -e))

(***************************************************************************)
(* Python floats.  A float is a record: cls is "fin", "inf" or "nan"; a    *)
(* finite one is (-1)^neg * man * 2^exp with man of exactly MantBits bits, *)
(* or man = <<>> and exp = 0 for a zero.  The inputs of the model stay in  *)
(* the range of normal numbers, so exp is not limited.                     *)
(***************************************************************************)
MantBits == 53

FZero(neg)  == [cls |-> "fin", neg |-> neg, man |-> <<>>, exp |-> 0]
FInf(neg)   == [cls |-> "inf", neg |-> neg, man |-> <<>>, exp |-> 0]
FNan        == [cls |-> "nan", neg |-> FALSE, man |-> <<>>, exp |-> 0]
\* a local that is not bound yet
FUnset      == [cls |-> "unset", neg |-> FALSE, man |-> <<>>, exp |-> 0]

\* The float nearest to (-1)^neg * (n + f) * 2^e, ties to even, where n > 0,
\* 0 <= f < 1 and sticky says that f > 0 (then n has more than MantBits bits).
RoundToFloat(neg, n, e, sticky) ==
    LET L == BitLen(n) IN
    IF L <= MantBits
    THEN [cls |-> "fin", neg |-> neg, man |-> BShl(n, MantBits - L),
          exp |-> e - (MantBits - L)]
    ELSE LET sh == L - MantBits
             q  == BShr(n, sh)
             up == /\ TestBit(n, sh - 1) = 1
                   /\ \/ ~LowZero(n, sh - 1)
                      \/ sticky
                      \/ TestBit(q, 0) = 1
             q2 == IF up THEN BMulAdd(q, 1, 1) ELSE q
         IN  IF BitLen(q2) > MantBits
             THEN [cls |-> "fin", neg |-> neg, man |-> BShr(q2, 1), exp |-> e + sh + 1]
             ELSE [cls |-> "fin", neg |-> neg, man |-> q2, exp |-> e + sh]

(***************************************************************************)
(* Text: a string is a sequence of one-character strings.                  *)
(***************************************************************************)
DigitChars == <<"0", "1", "2", "3", "4", "5", "6", "7", "8", "9">>
IsDigit(c) == \E i \in 1..10 : DigitChars[i] = c
DigitVal(c) == (CHOOSE i \in 1..10 : DigitChars[i] = c) - 1

\* the decimal digits of a natural number a, as str() writes them
RECURSIVE DecChars(_)
DecChars(a) ==
    LET d == BDivSmall(a, 10) IN
    IF Len(d[1]) = 0 THEN <<DigitChars[d[2] + 1]>>
    ELSE Append(DecChars(d[1]), DigitChars[d[2] + 1])

\* the natural number written with the decimal digits ds[i..], after acc
RECURSIVE DigitsToBig(_, _, _)
DigitsToBig(ds, i, acc) ==
    IF i > Len(ds) \/ Len(acc) < 0 THEN acc
    ELSE DigitsToBig(ds, i + 1, BMulAdd(acc, 10, DigitVal(ds[i])))

\* <<a div 10^k, whether a mod 10^k is not 0 or sticky>>
RECURSIVE DivPow10(_, _, _)
DivPow10(a, k, sticky) ==
    IF k = 0 THEN <<a, sticky>>
    ELSE LET d == BDivSmall(a, 10)
         IN  IF d[2] # 0 THEN DivPow10(d[1], k - 1, TRUE)
             ELSE DivPow10(d[1], k - 1, sticky)

(***************************************************************************)
(* float(s) for an attribute string s, line 10.  Accepted here: an         *)
(* optional sign followed by "nan", "inf", "infinity", or by decimal       *)
(* digits with at most one "." and at least one digit.  Everything else    *)
(* raises ValueError.  (float() also accepts exponents, upper case,        *)
(* underscores and surrounding blanks; no string the model draws uses      *)
(* them.)                                                                  *)
(***************************************************************************)
HasSign(s) == Len(s) > 0 /\ s[1] \in {"-", "+"}
Unsigned(s) == IF HasSign(s) THEN Tail(s) ELSE s
IsNegative(s) == Len(s) > 0 /\ s[1] = "-"

IsDecimal(b) ==
    /\ \A i \in 1..Len(b) : IsDigit(b[i]) \/ b[i] = "."
    /\ Cardinality({i \in 1..Len(b) : b[i] = "."}) <= 1
    /\ \E i \in 1..Len(b) : IsDigit(b[i])

\* the digits of a decimal without its ".", and the number of digits after it
DecimalDigits(b) == SelectSeq(b, IsDigit)
DecimalScale(b) ==
    IF \E i \in 1..Len(b) : b[i] = "."
    THEN Len(b) - (CHOOSE i \in 1..Len(b) : b[i] = ".")
    ELSE 0

\* the float nearest to (-1)^neg * n / 10^k
DecimalToFloat(neg, n, k) ==
    IF Len(n) = 0 THEN FZero(neg)
    ELSE LET S == MantBits + 1 + 4 * k
             q == DivPow10(BShl(n, S), k, FALSE)
         IN  RoundToFloat(neg, q[1], -S, q[2])

IsNanWord(b) == b = <<"n", "a", "n">>
IsInfWord(b) == b = <<"i", "n", "f">> \/ b = <<"i", "n", "f", "i", "n", "i", "t", "y">>

\* float(s) returns a value (it raises ValueError otherwise)
IsFloatLiteral(s) ==
    LET b == Unsigned(s) IN IsNanWord(b) \/ IsInfWord(b) \/ IsDecimal(b)

PyFloat(s) ==
    LET b   == Unsigned(s)
        neg == IsNegative(s)
    IN  IF ~IsFloatLiteral(s) THEN [ok |-> FALSE, val |-> FUnset]
        ELSE IF IsNanWord(b) THEN [ok |-> TRUE, val |-> FNan]
        ELSE IF IsInfWord(b) THEN [ok |-> TRUE, val |-> FInf(neg)]
        ELSE [ok |-> TRUE,
              val |-> DecimalToFloat(neg, DigitsToBig(DecimalDigits(b), 1, <<>>),
                                     DecimalScale(b))]

\* x * c for a float x and an int c in 1..2^15-1 (c is exactly a float), line 11
FMulInt(x, c) ==
    IF x.cls # "fin" \/ Len(x.man) = 0 THEN x
    ELSE RoundToFloat(x.neg, BMulAdd(x.man, c, 0), x.exp, FALSE)

\* x >= c for a float x and a positive int c, lines 14 and 16
FGe(x, c) ==
    CASE x.cls = "nan" -> FALSE
      [] x.cls = "inf" -> ~x.neg
      [] OTHER -> /\ ~x.neg
                  /\ Len(x.man) > 0
                  /\ CmpScaled(x.man, x.exp, c) >= 0

\* round(|x| * 10) to the nearest integer, ties to even, for a finite x
Tenths(x) ==
    LET X == BMulAdd(x.man, 10, 0) IN
    IF x.exp >= 0 THEN BShl(X, x.exp)
    ELSE LET sh == -x.exp
             q  == BShr(X, sh)
             up == /\ TestBit(X, sh - 1) = 1
                   /\ \/ ~LowZero(X, sh - 1)
                      \/ TestBit(q, 0) = 1
         IN  IF up THEN BMulAdd(q, 1, 1) ELSE q

\* a mutant of Format1f: the format ".0f", no decimal
Format0f(x) ==
    LET sign == IF x.neg THEN <<"-">> ELSE <<>> IN
    CASE x.cls = "nan" -> <<"n", "a", "n">>
      [] x.cls = "inf" -> sign \o <<"i", "n", "f">>
      [] OTHER -> sign \o DecChars(BDivSmall(Tenths(x), 10)[1])

\* f"{x:.1f}", line 22
Format1f(x) ==
    LET sign == IF x.neg THEN <<"-">> ELSE <<>> IN
    CASE x.cls = "nan" -> <<"n", "a", "n">>
      [] x.cls = "inf" -> sign \o <<"i", "n", "f">>
      [] OTHER -> LET d == BDivSmall(Tenths(x), 10)
                  IN  sign \o DecChars(d[1]) \o <<".", DigitChars[d[2] + 1]>>

(***************************************************************************)
(* The inputs: the coverage report at report_path and what output_path     *)
(* holds before the first run.                                             *)
(***************************************************************************)
RECURSIVE ZeroPad(_, _)
ZeroPad(ds, n) == IF Len(ds) >= n THEN ds ELSE ZeroPad(<<"0">> \o ds, n)

\* n / 10^k written as a decimal: DecStr(873, 3) is "0.873", DecStr(5, 0) is "5"
DecStr(n, k) ==
    LET ds == ZeroPad(DecChars(BFromInt(n)), k + 1) IN
    IF k = 0 THEN ds
    ELSE SubSeq(ds, 1, Len(ds) - k) \o <<".">> \o SubSeq(ds, Len(ds) - k + 1, Len(ds))

GridAttrs == {DecStr(n, k) : n \in 0..MaxNum, k \in 0..MaxScale}

\* attribute values at and around the thresholds, outside [0, 1], and not numbers
EdgeAttrs ==
    { <<"0", ".", "7", "9", "9", "9", "9", "9", "9", "9", "9", "9", "9", "9", "9", "9", "9", "9">>,
      <<"0", ".", "4", "9", "9", "9", "9", "9", "9", "9", "9", "9", "9", "9", "9", "9", "9", "9", "4">>,
      <<"0", ".", "7", "9", "9", "9", "9", "9", "9", "9", "9", "9", "9", "9", "9", "9", "9", "9", "9">>,
      <<"0", ".", "7", "9", "9", "6">>,
      <<"0", ".", "7", "9", "9", "5">>,
      <<"0", ".", "7", "9", "9", "4", "9">>,
      <<"0", ".", "4", "9", "9", "6">>,
      <<"0", ".", "4", "9", "9", "4">>,
      <<"0", ".", "8", "7", "3">>,
      <<"0", ".", "0", "0", "2", "5">>,
      <<"0", ".", "0", "0", "7", "5">>,
      <<"1", ".">>,
      <<".", "5">>,
      <<"+", "0", ".", "9">>,
      <<"1", "2", ".", "5">>,
      <<"-", "0", ".", "5">>,
      <<"-", "0", ".", "0">>,
      <<"-", "0", ".", "0", "0", "0", "1">>,
      <<"-", "0", ".", "8">>,
      <<"n", "a", "n">>,
      <<"i", "n", "f">>,
      <<"-", "i", "n", "f">>,
      <<"i", "n", "f", "i", "n", "i", "t", "y">>,
      <<>>,
      <<"a", "b", "c">>,
      <<"-">>,
      <<".">>,
      <<"1", ".", "2", ".", "3">>,
      <<"0", ".", "8", "x">>,
      <<"N", "/", "A">> }

Attrs == GridAttrs \cup EdgeAttrs

\* file: "missing" (no file at report_path), "malformed" (not well-formed XML)
\* or "ok"; hasAttr: the root element carries line-rate; attr: its value
Reports ==
    {[file |-> f, hasAttr |-> FALSE, attr |-> <<>>] : f \in {"missing", "malformed", "ok"}}
      \cup {[file |-> "ok", hasAttr |-> TRUE, attr |-> a] : a \in Attrs}

NoBadge == [schemaVersion |-> 0, label |-> "", message |-> <<>>, color |-> ""]

\* a badge left at output_path by something else
StaleBadge == [schemaVersion |-> 1, label |-> "coverage",
               message |-> <<"1", "2", ".", "3", "%">>, color |-> "red"]

\* What output_path holds.  kind: "absent" (no file), "other" (a file that is
\* no badge), "empty" (a file of length 0), "partial" (a proper prefix of the
\* JSON text of data), "json" (the whole JSON text of data).
FileOf(kind, data) == [kind |-> kind, data |-> data]

InitialFiles == {FileOf("absent", NoBadge), FileOf("other", NoBadge),
                 FileOf("json", StaleBadge)}

(***************************************************************************)
(* The state.                                                              *)
(*                                                                         *)
(* generate_coverage_badge.py:                                             *)
(*   report, outfile      the files at report_path and output_path         *)
(*   pc                   the statement generate_badge is at               *)
(*   line_rate, coverage, color, badge      its locals                     *)
(*   err                  the exception being handled ("" for none)        *)
(*   stdout, status       the lines printed and the exit status (-1 while  *)
(*                        the process runs)                                *)
(*   run                  the number of the current run of the script      *)
(*   before               what output_path held when the current run began *)
(*   done                 per finished run, what it left behind            *)
(*                                                                         *)
(* verify_event_list.py and verify_event_form.py:                          *)
(*   script               which of the two runs ("" when neither)          *)
(*   vpc                  the statement run() is at                        *)
(*   browser              "none", "open" or "closed"                       *)
(*   vout                 the lines printed                                *)
(*   shots                the screenshots taken, in order                  *)
(*   events               what happened, in order: checks with their       *)
(*                        outcome, calls that raised, the close            *)
(*   escaped              an exception left run()                          *)
(***************************************************************************)
VARIABLES report, outfile, pc, line_rate, coverage, color, badge, err,
          stdout, status, run, before, done,
          script, vpc, browser, vout, shots, events, escaped

bvars == <<report, outfile, pc, line_rate, coverage, color, badge, err,
           stdout, status, run, before, done>>
vvars == <<script, vpc, browser, vout, shots, events, escaped>>
vars  == <<report, outfile, pc, line_rate, coverage, color, badge, err,
           stdout, status, run, before, done,
           script, vpc, browser, vout, shots, events, escaped>>

(***************************************************************************)
(* generate_badge, lines 6-33.                                             *)
(***************************************************************************)
\* a mutant of LineRateOf: root.attrib["line-rate"], which raises when absent
LineRateOfRequired(r) ==
    IF r.hasAttr THEN PyFloat(r.attr) ELSE [ok |-> FALSE, val |-> FUnset]

\* line 10: float(root.attrib.get("line-rate", 0)); ok is FALSE when float() raises
LineRateOf(r) ==
    IF r.hasAttr THEN PyFloat(r.attr) ELSE [ok |-> TRUE, val |-> FZero(FALSE)]

\* line 11
CoverageOf(rate) == FMulInt(rate, 100)

\* a mutant of ColorOf: the two thresholds tested in the other order
ColorOfYellowFirst(cov) ==
    IF FGe(cov, 50) THEN "yellow"
    ELSE IF FGe(cov, 80) THEN "brightgreen"
    ELSE "red"

\* lines 13-17
ColorOf(cov) ==
    IF FGe(cov, 80) THEN "brightgreen"
    ELSE IF FGe(cov, 50) THEN "yellow"
    ELSE "red"

\* a mutant of MakeBadge: a fifth key
MakeBadgeWithValue(cov, col) ==
    [schemaVersion |-> 1,
     label         |-> "coverage",
     message       |-> Format1f(cov) \o <<"%">>,
     color         |-> col,
     value         |-> Format1f(cov)]

\* lines 19-24
MakeBadge(cov, col) ==
    [schemaVersion |-> 1,
     label         |-> "coverage",
     message       |-> Format1f(cov) \o <<"%">>,
     color         |-> col]

Line(kind, data, text) == [kind |-> kind, data |-> data, text |-> text]

\* a raise inside the try block: control goes to the handler of line 31
Raise(e) == /\ pc' = "except"
            /\ err' = e

\* a mutant of ParseReport: output_path is opened for writing before the parse
ParseReportAfterOpen ==
    /\ pc = "parse"
    /\ outfile' = FileOf("empty", NoBadge)
    /\ IF report.file = "ok"
       THEN pc' = "compute" /\ err' = err
       ELSE Raise(IF report.file = "missing" THEN "FileNotFoundError" ELSE "ParseError")
    /\ UNCHANGED <<report, line_rate, coverage, color, badge,
                   stdout, status, run, before, done>>
    /\ UNCHANGED vvars

\* lines 8-9: ET.parse(report_path), tree.getroot()
ParseReport ==
    /\ pc = "parse"
    /\ IF report.file = "ok"
       THEN pc' = "compute" /\ err' = err
       ELSE Raise(IF report.file = "missing" THEN "FileNotFoundError" ELSE "ParseError")
    /\ UNCHANGED <<report, outfile, line_rate, coverage, color, badge,
                   stdout, status, run, before, done>>
    /\ UNCHANGED vvars

\* lines 10-24: the rate, the percentage, the color, the badge
ComputeBadge ==
    /\ pc = "compute"
    /\ LET lr == LineRateOf(report) IN
       IF lr.ok
       THEN /\ line_rate' = lr.val
            /\ coverage' = CoverageOf(lr.val)
            /\ color' = ColorOf(CoverageOf(lr.val))
            /\ badge' = MakeBadge(CoverageOf(lr.val), ColorOf(CoverageOf(lr.val)))
            /\ pc' = "open"
            /\ err' = err
       ELSE /\ Raise("ValueError")
            /\ UNCHANGED <<line_rate, coverage, color, badge>>
    /\ UNCHANGED <<report, outfile, stdout, status, run, before, done>>
    /\ UNCHANGED vvars

\* line 26: open(output_path, "w") creates the file or cuts it to length 0;
\* when it raises OSError (no permission, no such directory) the file is as it was
OpenOutput ==
    /\ pc = "open"
    /\ \/ /\ outfile' = FileOf("empty", NoBadge)
          /\ pc' = "dump"
          /\ err' = err
       \/ /\ Raise("OSError")
          /\ outfile' = outfile
    /\ UNCHANGED <<report, line_rate, coverage, color, badge,
                   stdout, status, run, before, done>>
    /\ UNCHANGED vvars

\* lines 27-28: json.dump(badge, f, indent=2) and the close of the with block.
\* A write that raises OSError (disk full, I/O error) leaves the file with
\* what reached it: nothing, or a prefix of the text.
DumpBadge ==
    /\ pc = "dump"
    /\ \/ /\ outfile' = FileOf("json", badge)
          /\ pc' = "print"
          /\ err' = err
       \/ /\ Raise("OSError")
          /\ outfile' \in {FileOf("empty", NoBadge), FileOf("partial", badge)}
    /\ UNCHANGED <<report, line_rate, coverage, color, badge,
                   stdout, status, run, before, done>>
    /\ UNCHANGED vvars

\* line 29
PrintGenerated ==
    /\ pc = "print"
    /\ stdout' = Append(stdout, Line("generated", badge, ""))
    /\ pc' = "return"
    /\ UNCHANGED <<report, outfile, line_rate, coverage, color, badge, err,
                   status, run, before, done>>
    /\ UNCHANGED vvars

\* the process ends with the given status
Exit(code) ==
    /\ status' = code
    /\ pc' = "exited"
    /\ done' = Append(done, [file |-> outfile, status |-> code])

\* lines 31-33: except Exception: print, sys.exit(1)
HandleException ==
    /\ pc = "except"
    /\ stdout' = Append(stdout, Line("error", NoBadge, err))
    /\ Exit(1)
    /\ UNCHANGED <<report, outfile, line_rate, coverage, color, badge, err,
                   run, before>>
    /\ UNCHANGED vvars

\* generate_badge returns and the script ends, line 38
ReturnNormally ==
    /\ pc = "return"
    /\ Exit(0)
    /\ UNCHANGED <<report, outfile, line_rate, coverage, color, badge, err,
                   stdout, run, before>>
    /\ UNCHANGED vvars

\* lines 35-38: the script is started again with the same two paths
RunAgain ==
    /\ pc = "exited"
    /\ run < MaxRuns
    /\ run' = run + 1
    /\ pc' = "parse"
    /\ line_rate' = FUnset
    /\ coverage' = FUnset
    /\ color' = ""
    /\ badge' = NoBadge
    /\ err' = ""
    /\ stdout' = <<>>
    /\ status' = -1
    /\ before' = outfile
    /\ UNCHANGED <<report, outfile, done>>
    /\ UNCHANGED vvars

VIdle ==
    /\ script = ""
    /\ vpc = "idle"
    /\ browser = "none"
    /\ vout = <<>>
    /\ shots = <<>>
    /\ events = <<>>
    /\ escaped = FALSE

Init ==
    /\ report \in Reports
    /\ outfile \in InitialFiles
    /\ before = outfile
    /\ pc = "parse"
    /\ line_rate = FUnset
    /\ coverage = FUnset
    /\ color = ""
    /\ badge = NoBadge
    /\ err = ""
    /\ stdout = <<>>
    /\ status = -1
    /\ run = 1
    /\ done = <<>>
    /\ VIdle

Next ==
    \/ ParseReport
    \/ ComputeBadge
    \/ OpenOutput
    \/ DumpBadge
    \/ PrintGenerated
    \/ HandleException
    \/ ReturnNormally
    \/ RunAgain

Spec == Init /\ [][Next]_vars

(***************************************************************************)
(* The verification scripts.  Every Playwright call either returns or      *)
(* raises (the server is down, a locator times out, the page or the        *)
(* browser is gone); events records each call with its result: "ok",       *)
(* "true" or "false" for a call that returned, "raise" for one that        *)
(* raised.                                                                 *)
(***************************************************************************)
\* content.find() returns -1 or an index in 0..MaxIdx
MaxIdx == 2

Event(call, result) == [call |-> call, result |-> result]

\* a statement of the try block: the call's event, the lines printed, and the
\* next statement; a call that raised leads to the except clause
TryStep(call, result, lines, next) ==
    /\ events' = Append(events, Event(call, result))
    /\ vout' = vout \o lines
    /\ vpc' = IF result = "raise" THEN "except" ELSE next

\* line 4 of both scripts: playwright.chromium.launch(), outside the try block
Launch ==
    /\ vpc = "launch"
    /\ \/ /\ browser' = "open"
          /\ events' = Append(events, Event("launch", "ok"))
          /\ vpc' = "new_page"
          /\ escaped' = escaped
       \/ /\ browser' = browser
          /\ events' = Append(events, Event("launch", "raise"))
          /\ vpc' = "raised"
          /\ escaped' = TRUE
    /\ UNCHANGED <<script, vout, shots>>
    /\ UNCHANGED bvars

\* line 5 of both scripts: browser.new_page(), outside the try block; line 7
\* of verify_event_form prints before the try block is entered
NewPage ==
    /\ vpc = "new_page"
    /\ \/ /\ events' = Append(events, Event("new_page", "ok"))
          /\ vpc' = IF script = "list" THEN "goto" ELSE "goto_create"
          /\ vout' = IF script = "list" THEN vout
                     ELSE Append(vout, "Navigating to create page...")
          /\ escaped' = escaped
       \/ /\ events' = Append(events, Event("new_page", "raise"))
          /\ vpc' = "raised"
          /\ vout' = vout
          /\ escaped' = TRUE
    /\ UNCHANGED <<script, browser, shots>>
    /\ UNCHANGED bvars

(***************************************************************************)
(* verify_event_list.py, run, lines 7-49.                                  *)
(***************************************************************************)
\* lines 8-10
ListGoto ==
    /\ script = "list" /\ vpc = "goto"
    /\ \E r \in {"ok", "raise"} :
          TryStep("goto", r, <<"Navigating to http://localhost:3000/app">>, "wait")
    /\ UNCHANGED <<script, browser, shots, escaped>>
    /\ UNCHANGED bvars

\* lines 12-13
ListWait ==
    /\ script = "list" /\ vpc = "wait"
    /\ \E r \in {"ok", "raise"} :
          TryStep("wait_for_load_state", r, <<"Waiting for page load...">>, "heading")
    /\ UNCHANGED <<script, browser, shots, escaped>>
    /\ UNCHANGED bvars

\* the line an is_visible() check of verify_event_list prints
VisibleLine(call, result) ==
    CASE call = "heading" ->
           IF result = "true" THEN "Calendar heading found."
           ELSE "Calendar heading NOT found."
      [] call = "meeting" ->
           IF result = "true" THEN "Event 'Team Meeting' found."
           ELSE "Event 'Team Meeting' NOT found."
      [] call = "today" ->
           IF result = "true" THEN "Group header 'Today' found."
           ELSE "Group header 'Today' NOT found."
      [] OTHER ->
           IF result = "true" THEN "Events are correctly sorted (Today before Tomorrow)."
           ELSE "Events sorting issue or not found."

\* an if/else over is_visible(): one line for either outcome, then the next statement
VisibleCheck(call, next) ==
    \E r \in {"true", "false", "raise"} :
        TryStep(call, r, IF r = "raise" THEN <<>> ELSE <<VisibleLine(call, r)>>, next)

\* a mutant of ListHeading: a heading that is not visible raises
ListHeadingStrict ==
    /\ script = "list" /\ vpc = "heading"
    /\ \/ VisibleCheck("heading", "meeting")
       \/ /\ events' = Append(events, Event("heading", "false"))
          /\ vout' = vout
          /\ vpc' = "except"
    /\ UNCHANGED <<script, browser, shots, escaped>>
    /\ UNCHANGED bvars

\* lines 16-20
ListHeading ==
    /\ script = "list" /\ vpc = "heading"
    /\ VisibleCheck("heading", "meeting")
    /\ UNCHANGED <<script, browser, shots, escaped>>
    /\ UNCHANGED bvars

\* lines 23-26
ListMeeting ==
    /\ script = "list" /\ vpc = "meeting"
    /\ VisibleCheck("meeting", "today")
    /\ UNCHANGED <<script, browser, shots, escaped>>
    /\ UNCHANGED bvars

\* lines 28-31
ListToday ==
    /\ script = "list" /\ vpc = "today"
    /\ VisibleCheck("today", "order")
    /\ UNCHANGED <<script, browser, shots, escaped>>
    /\ UNCHANGED bvars

\* line 37
Sorted(today_idx, tomorrow_idx) ==
    today_idx # -1 /\ tomorrow_idx # -1 /\ today_idx < tomorrow_idx

\* lines 34-40: page.content(), the two find() and the comparison; two
\* different words are never found at the same index
ListOrder ==
    /\ script = "list" /\ vpc = "order"
    /\ \/ TryStep("order", "raise", <<>>, "screenshot")
       \/ \E today_idx \in -1..MaxIdx, tomorrow_idx \in -1..MaxIdx :
             /\ today_idx = tomorrow_idx => today_idx = -1
             /\ LET r == IF Sorted(today_idx, tomorrow_idx) THEN "true" ELSE "false"
                IN  TryStep("order", r, <<VisibleLine("order", r)>>, "screenshot")
    /\ UNCHANGED <<script, browser, shots, escaped>>
    /\ UNCHANGED bvars

\* lines 42-44
ListScreenshot ==
    /\ script = "list" /\ vpc = "screenshot"
    /\ \/ /\ TryStep("screenshot", "ok",
                     <<"Taking screenshot...",
                       "Screenshot saved to verification/event_list.png">>, "finally")
          /\ shots' = Append(shots, "verification/event_list.png")
       \/ /\ TryStep("screenshot", "raise", <<"Taking screenshot...">>, "finally")
          /\ shots' = shots
    /\ UNCHANGED <<script, browser, escaped>>
    /\ UNCHANGED bvars

\* lines 46-47
ListExcept ==
    /\ script = "list" /\ vpc = "except"
    /\ vout' = Append(vout, "Error: {e}")
    /\ vpc' = "finally"
    /\ UNCHANGED <<script, browser, shots, events, escaped>>
    /\ UNCHANGED bvars

(***************************************************************************)
(* verify_event_form.py, run, lines 8-63.                                  *)
(***************************************************************************)
\* line 9
FormGotoCreate ==
    /\ script = "form" /\ vpc = "goto_create"
    /\ \E r \in {"ok", "raise"} : TryStep("goto_create", r, <<>>, "goto_app_create")
    /\ UNCHANGED <<script, browser, shots, escaped>>
    /\ UNCHANGED bvars

\* line 14
FormGotoAppCreate ==
    /\ script = "form" /\ vpc = "goto_app_create"
    /\ \E r \in {"ok", "raise"} : TryStep("goto_app_create", r, <<>>, "autofocus")
    /\ UNCHANGED <<script, browser, shots, escaped>>
    /\ UNCHANGED bvars

\* lines 17-20: expect(title_input).to_be_focused() raises AssertionError
\* when the input is not focused
FormAutofocus ==
    /\ script = "form" /\ vpc = "autofocus"
    /\ \/ TryStep("expect_focused", "ok",
                  <<"Checking autofocus...", "SUCCESS: Title input is focused.">>,
                  "title")
       \/ TryStep("expect_focused", "raise", <<"Checking autofocus...">>, "title")
    /\ UNCHANGED <<script, browser, shots, escaped>>
    /\ UNCHANGED bvars

\* what get_attribute("title") returns: the expected title, another, or None
TitleValues == {"Save (Ctrl+Enter)", "Save", "None"}

\* lines 23-31
FormTitle ==
    /\ script = "form" /\ vpc = "title"
    /\ \/ TryStep("get_attribute", "raise", <<"Checking submit button title...">>, "fill")
       \/ \E title_attr \in TitleValues :
             IF title_attr = "Save (Ctrl+Enter)"
             THEN TryStep("get_attribute", "true",
                          <<"Checking submit button title...",
                            "SUCCESS: Submit button has correct title.">>, "fill")
             ELSE TryStep("get_attribute", "false",
                          <<"Checking submit button title...",
                            "FAILURE: Title is {title_attr}">>, "fill")
    /\ UNCHANGED <<script, browser, shots, escaped>>
    /\ UNCHANGED bvars

\* lines 34-35
FormFill ==
    /\ script = "form" /\ vpc = "fill"
    /\ \E r \in {"ok", "raise"} :
          TryStep("fill", r, <<"Testing Ctrl+Enter shortcut...">>, "press")
    /\ UNCHANGED <<script, browser, shots, escaped>>
    /\ UNCHANGED bvars

\* line 38
FormPress ==
    /\ script = "form" /\ vpc = "press"
    /\ \E r \in {"ok", "raise"} : TryStep("press", r, <<>>, "timeout")
    /\ UNCHANGED <<script, browser, shots, escaped>>
    /\ UNCHANGED bvars

\* line 42
FormTimeout ==
    /\ script = "form" /\ vpc = "timeout"
    /\ \E r \in {"ok", "raise"} : TryStep("wait_for_timeout", r, <<>>, "submitted")
    /\ UNCHANGED <<script, browser, shots, escaped>>
    /\ UNCHANGED bvars

\* lines 45-53: an error message, else the loading state, else a warning;
\* count() and inner_text() may raise
FormSubmitted ==
    /\ script = "form" /\ vpc = "submitted"
    /\ \/ TryStep("submitted", "raise", <<>>, "screenshot")
       \/ TryStep("submitted", "true",
                  <<"SUCCESS: Form submitted (Error shown: {inner_text})">>, "screenshot")
       \/ TryStep("submitted", "true",
                  <<"SUCCESS: Form submitted (Loading state visible)">>, "screenshot")
       \/ TryStep("submitted", "false",
                  <<"WARNING: Neither error nor loading state visible. Maybe submission failed silently or too fast.">>,
                  "screenshot")
    /\ UNCHANGED <<script, browser, shots, escaped>>
    /\ UNCHANGED bvars

\* lines 56-57
FormScreenshot ==
    /\ script = "form" /\ vpc = "screenshot"
    /\ \/ /\ TryStep("screenshot", "ok",
                     <<"Screenshot saved to verification/verification.png">>, "finally")
          /\ shots' = Append(shots, "verification/verification.png")
       \/ /\ TryStep("screenshot", "raise", <<>>, "finally")
          /\ shots' = shots
    /\ UNCHANGED <<script, browser, escaped>>
    /\ UNCHANGED bvars

\* lines 59-61: the screenshot of line 61 is inside the except clause: when
\* it raises, the finally clause runs and the exception leaves run()
FormExcept ==
    /\ script = "form" /\ vpc = "except"
    /\ vout' = Append(vout, "ERROR: {e}")
    /\ \/ /\ events' = Append(events, Event("error_screenshot", "ok"))
          /\ shots' = Append(shots, "verification/error.png")
          /\ vpc' = "finally"
       \/ /\ events' = Append(events, Event("error_screenshot", "raise"))
          /\ shots' = shots
          /\ vpc' = "finally_raising"
    /\ UNCHANGED <<script, browser, escaped>>
    /\ UNCHANGED bvars

\* the finally clause of both scripts (list lines 48-49, form lines 62-63):
\* browser.close(), then run() returns or the pending exception goes on
Finally ==
    /\ vpc \in {"finally", "finally_raising"}
    /\ browser' = "closed"
    /\ events' = Append(events, Event("close", "ok"))
    /\ vpc' = IF vpc = "finally" THEN "returned" ELSE "raised"
    /\ escaped' = (vpc = "finally_raising")
    /\ UNCHANGED <<script, vout, shots>>
    /\ UNCHANGED bvars

BIdle ==
    /\ report = [file |-> "missing", hasAttr |-> FALSE, attr |-> <<>>]
    /\ outfile = FileOf("absent", NoBadge)
    /\ before = outfile
    /\ pc = "idle"
    /\ line_rate = FUnset
    /\ coverage = FUnset
    /\ color = ""
    /\ badge = NoBadge
    /\ err = ""
    /\ stdout = <<>>
    /\ status = -1
    /\ run = 0
    /\ done = <<>>

InitVerify ==
    /\ script \in {"list", "form"}
    /\ vpc = "launch"
    /\ browser = "none"
    /\ vout = <<>>
    /\ shots = <<>>
    /\ events = <<>>
    /\ escaped = FALSE
    /\ BIdle

NextVerify ==
    \/ Launch
    \/ NewPage
    \/ ListGoto
    \/ ListWait
    \/ ListHeading
    \/ ListMeeting
    \/ ListToday
    \/ ListOrder
    \/ ListScreenshot
    \/ ListExcept
    \/ FormGotoCreate
    \/ FormGotoAppCreate
    \/ FormAutofocus
    \/ FormTitle
    \/ FormFill
    \/ FormPress
    \/ FormTimeout
    \/ FormSubmitted
    \/ FormScreenshot
    \/ FormExcept
    \/ Finally

SpecVerify == InitVerify /\ [][NextVerify]_vars

(***************************************************************************)
(* Claims about generate_badge, checked under Spec.                        *)
(***************************************************************************)
\* the exact value of a finite float r is at least num / den (num, den > 0)
RateGe(r, num, den) ==
    /\ ~r.neg
    /\ Len(r.man) > 0
    /\ CmpScaled(BMulAdd(r.man, den, 0), r.exp, num) >= 0

\* the exact value of r lies in [0, 1]
InUnitInterval(r) ==
    /\ r.cls = "fin"
    /\ \/ Len(r.man) = 0
       \/ ~r.neg /\ CmpScaled(r.man, r.exp, 1) <= 0

\* the locals of lines 10-24 are bound in the current run
Computed == coverage.cls # "unset"

\* the current run wrote its badge to output_path
Wrote == outfile = FileOf("json", badge) /\ pc \in {"print", "return", "exited"}

BadgeKeys == {"schemaVersion", "label", "message", "color"}
Colors == {"brightgreen", "yellow", "red"}

\* re.fullmatch(r"\d+\.\d%", m)
MatchesPattern(m) ==
    /\ Len(m) >= 4
    /\ m[Len(m)] = "%"
    /\ IsDigit(m[Len(m) - 1])
    /\ m[Len(m) - 2] = "."
    /\ \A i \in 1..(Len(m) - 3) : IsDigit(m[i])

\* a message that shows a number: the pattern, after an optional "-"
IsNumericMessage(m) == MatchesPattern(IF IsNegative(m) THEN Tail(m) ELSE m)

RECURSIVE DigitsToInt(_, _, _)
DigitsToInt(ds, i, acc) ==
    IF i > Len(ds) THEN acc ELSE DigitsToInt(ds, i + 1, 10 * acc + DigitVal(ds[i]))

\* the percentage a numeric message shows, in tenths of a percent: 873 for "87.3%"
ShownTenths(m) ==
    LET n == DigitsToInt(SelectSeq(m, IsDigit), 1, 0)
    IN  IF IsNegative(m) THEN -n ELSE n

\* the report cannot be read or parsed: no file, no well-formed XML, or a
\* line-rate that float() rejects
Unparsable(r) == r.file # "ok" \/ (r.hasAttr /\ ~IsFloatLiteral(r.attr))

\* the badge of a report whose line-rate attribute is a
BadgeForAttr(a) ==
    LET c == CoverageOf(PyFloat(a).val) IN MakeBadge(c, ColorOf(c))

\* C1: for every line-rate r in [0, 1] the color is "brightgreen" exactly when
\* r >= 0.80, "yellow" exactly when 0.50 <= r < 0.80, and "red" exactly when
\* r < 0.50, r taken as the exact value of the parsed float.
C1_ColorByRate ==
    (Computed /\ InUnitInterval(line_rate)) =>
        color = IF RateGe(line_rate, 4, 5) THEN "brightgreen"
                ELSE IF RateGe(line_rate, 1, 2) THEN "yellow"
                ELSE "red"

\* C2: when the report cannot be read or parsed, the file at output_path is
\* what it was before the run (absent stays absent), and the run ends with
\* one diagnostic line and exit status 1.
C2_ParseFailureLeavesOutput ==
    Unparsable(report) =>
        /\ outfile = before
        /\ \A i \in 1..Len(done) : done[i].file = before /\ done[i].status = 1
        /\ pc = "exited" =>
              /\ status = 1
              /\ Len(stdout) = 1
              /\ stdout[1].kind = "error"

C2_Witness ==
    /\ pc = "exited"
    /\ report.hasAttr
    /\ Unparsable(report)
    /\ before.kind = "json"
    /\ run = MaxRuns

\* C3: every failed run ends with one message and exit status 1, and leaves
\* at output_path either the complete badge or what was there before the run.
C3_NoPartialOutput ==
    (pc = "exited" /\ status = 1) =>
        /\ Len(stdout) = 1
        /\ stdout[1].kind = "error"
        /\ outfile = before \/ outfile = FileOf("json", badge)

\* C4: after a run that exits with status 0 the file at output_path is the
\* JSON object with exactly the keys schemaVersion = 1, label = "coverage",
\* message and color (one of the three colors), whatever it held before; the
\* one line printed is the confirmation, and it is printed only once the file
\* holds the badge.
C4_SuccessWritesBadge ==
    /\ (pc = "exited" /\ status = 0) =>
          /\ outfile.kind = "json"
          /\ DOMAIN outfile.data = BadgeKeys
          /\ outfile.data.schemaVersion = 1
          /\ outfile.data.label = "coverage"
          /\ outfile.data.color \in Colors
          /\ Len(outfile.data.message) > 0
          /\ stdout = <<Line("generated", outfile.data, "")>>
    /\ \A i \in 1..Len(stdout) :
          stdout[i].kind = "generated" => outfile = FileOf("json", stdout[i].data)

C4_Witness ==
    /\ pc = "exited"
    /\ status = 0
    /\ before.kind \in {"json", "partial"}
    /\ before # outfile

C6_MissingAttrIsZero ==
    (report.file = "ok" /\ ~report.hasAttr) =>
        /\ (pc = "except" \/ status = 1) => err = "OSError"
        /\ pc \notin {"parse", "compute"} =>
              /\ line_rate = FZero(FALSE)
              /\ coverage = FZero(FALSE)
              /\ badge = BadgeForAttr(<<"0", ".", "0">>)
              /\ badge.message = <<"0", ".", "0", "%">>
              /\ badge.color = "red"
        /\ (pc = "exited" /\ err = "") =>
              /\ status = 0
              /\ outfile = FileOf("json", badge)

C6_Witness ==
    /\ report.file = "ok"
    /\ ~report.hasAttr
    /\ pc = "exited"
    /\ status = 0
    /\ outfile.data.message = <<"0", ".", "0", "%">>

\* C7: a second run with the same report and output_path leaves the file as
\* the first run left it.
C7_SecondRunLeavesFile ==
    \A i \in 1..(Len(done) - 1) :
        done[i].status = 0 => done[i + 1].file = done[i].file

\* C10 as stated: the color agrees with the percentage the message shows: at
\* least 80.0 shown means "brightgreen", at least 50.0 shown means not "red".
C10_ColorAgreesWithMessage ==
    (Wrote /\ IsNumericMessage(badge.message)) =>
        /\ ShownTenths(badge.message) >= 800 => badge.color = "brightgreen"
        /\ ShownTenths(badge.message) >= 500 => badge.color # "red"

\* C10 as amended: more than 80.0 shown (80.1 or more) means "brightgreen" and
\* more than 50.0 shown means not "red"; "brightgreen" means at least 80.0
\* shown and a color other than "red" means at least 50.0 shown.  At exactly
\* 80.0 or 50.0 shown the color may be that of the tier below.
C10_ColorAgreesBeyondRounding ==
    (Wrote /\ IsNumericMessage(badge.message)) =>
        /\ ShownTenths(badge.message) >= 801 => badge.color = "brightgreen"
        /\ ShownTenths(badge.message) >= 501 => badge.color # "red"
        /\ badge.color = "brightgreen" => ShownTenths(badge.message) >= 800
        /\ badge.color # "red" => ShownTenths(badge.message) >= 500

C10_Witness ==
    /\ Wrote
    /\ badge.message = <<"8", "0", ".", "0", "%">>
    /\ badge.color = "yellow"

(***************************************************************************)
(* Claims about the verification scripts, checked under SpecVerify.        *)
(***************************************************************************)
\* run() is over: it returned, or an exception left it
Ended == vpc \in {"returned", "raised"}

\* the calls of the try block
IsTryCall(e) == e.call \notin {"launch", "new_page", "error_screenshot", "close"}

\* a call of the try block raised
TryRaised == \E i \in 1..Len(events) : IsTryCall(events[i]) /\ events[i].result = "raise"

\* C8: in both scripts, once a call of the try block has raised, run() ends
\* with an error line printed, a failure screenshot attempted before the
\* browser is closed, the browser closed, and no exception leaving run().
C8_FailureHandled ==
    (Ended /\ TryRaised) =>
        /\ \E i \in 1..Len(vout) : vout[i] \in {"Error: {e}", "ERROR: {e}"}
        /\ \E i \in 1..Len(events), j \in 1..Len(events) :
              /\ i < j
              /\ events[i].call = "error_screenshot"
              /\ events[j].call = "close"
        /\ browser = "closed"
        /\ ~escaped

ListChecks == <<"heading", "meeting", "today", "order">>
FoundLines == <<"Calendar heading found.",
                "Event 'Team Meeting' found.",
                "Group header 'Today' found.",
                "Events are correctly sorted (Today before Tomorrow).">>
NotFoundLines == <<"Calendar heading NOT found.",
                   "Event 'Team Meeting' NOT found.",
                   "Group header 'Today' NOT found.",
                   "Events sorting issue or not found.">>

IsCheckLine(l) == \E i \in 1..4 : l = FoundLines[i] \/ l = NotFoundLines[i]
IsOutcome(e) == e.result \in {"true", "false"}

\* the checks that returned an outcome, and the found/not-found lines printed
Outcomes == SelectSeq(events, IsOutcome)
CheckLines == SelectSeq(vout, IsCheckLine)

\* the lines verify_event_form prints after the autofocus check
LaterFormLines ==
    {"SUCCESS: Title input is focused.",
     "Checking submit button title...",
     "SUCCESS: Submit button has correct title.",
     "FAILURE: Title is {title_attr}",
     "Testing Ctrl+Enter shortcut...",
     "SUCCESS: Form submitted (Error shown: {inner_text})",
     "SUCCESS: Form submitted (Loading state visible)",
     "WARNING: Neither error nor loading state visible. Maybe submission failed silently or too fast.",
     "Screenshot saved to verification/verification.png"}

AutofocusFailed == \E i \in 1..Len(events) : events[i] = Event("expect_focused", "raise")

\* C9: in verify_event_list the except clause is entered only by a call that
\* raised, never by the outcome of a check; the checks that returned are the
\* first of heading, meeting, today, order, and each printed exactly its
\* found or not-found line, in that order; after the fourth the screenshot
\* verification/event_list.png is the next call, and the browser is closed
\* after it, before run() returns.  In verify_event_form a failed autofocus
\* expectation leads to the error path: no later check runs, none of their
\* lines and no success screenshot appear.
C9_ChecksDoNotAbort ==
    /\ script = "list" =>
          /\ vpc = "except" => events[Len(events)].result = "raise"
          /\ Len(Outcomes) <= 4
          /\ Len(CheckLines) = Len(Outcomes)
          /\ \A i \in 1..Len(Outcomes) :
                /\ Outcomes[i].call = ListChecks[i]
                /\ CheckLines[i] = IF Outcomes[i].result = "true"
                                   THEN FoundLines[i] ELSE NotFoundLines[i]
          /\ (Len(Outcomes) = 4 /\ vpc # "screenshot") =>
                \E i \in 2..Len(events) :
                   /\ events[i].call = "screenshot"
                   /\ events[i - 1].call = "order"
                   /\ events[i].result = "ok" => shots = <<"verification/event_list.png">>
                   /\ vpc = "returned" =>
                         /\ browser = "closed"
                         /\ events[Len(events)].call = "close"
                         /\ i < Len(events)
    /\ (script = "form" /\ AutofocusFailed) =>
          /\ vpc \in {"except", "finally", "finally_raising", "returned", "raised"}
          /\ \A i \in 1..Len(vout) : vout[i] \notin LaterFormLines
          /\ \A i \in 1..Len(shots) : shots[i] # "verification/verification.png"
          /\ \A i \in 1..Len(events) :
                events[i].call \notin {"get_attribute", "fill", "press",
                                       "wait_for_timeout", "submitted", "screenshot"}
          /\ vpc # "except" => \E i \in 1..Len(vout) : vout[i] = "ERROR: {e}"

C9_Witness ==
    /\ script = "list"
    /\ vpc = "returned"
    /\ Len(Outcomes) = 4
    /\ Outcomes[1].result = "false"
    /\ Outcomes[2].result = "true"
    /\ Outcomes[3].result = "false"
    /\ Outcomes[4].result = "false"
    /\ shots = <<"verification/event_list.png">>
    /\ browser = "closed"

====
